---- MODULE Spec2Model ----
(***************************************************************************)
(* Fruko-Bindgen: lexer (src/src/lexer.rs), parser (src/src/parser.rs),    *)
(* the C++ backend (src/src/cxx.rs), the TypeScript backend                *)
(* (src/src/ts_mobx.rs), the target lookup                                 *)
(* (src/src/compilation_target.rs) and the driver (src/src/main.rs).       *)
(*                                                                         *)
(* A character is a one-character string, a text (String) a sequence of    *)
(* characters.  Every enum value of the source is a record whose first     *)
(* field names the variant.                                                *)
(***************************************************************************)
EXTENDS Integers, Sequences, FiniteSets, TLC

VARIABLES
    \* ---- lexer (struct Lexer, lex_impl's locals) ----
    contents,         \* the String handed to lex_tokens
    iterator,         \* number of characters the Peekable<Chars> has yielded
    source_location,  \* Lexer.source_location
    tokens,           \* lex_impl's local Vec<Token>
    lex_result,       \* lex_impl's return value, [tag |-> "Running"] before it
    token_starts,     \* history: index in contents of each token's first char
    token_ends,       \* history: index in contents of each token's last char
    \* ---- parser ----
    token_list,       \* the TokenList handed to parse_tokens
    parse_result,     \* parse_tokens' return value
    \* ---- C++ backend ----
    ast,              \* the ASTNode handed to cxx::generate_code
    new_ast,          \* CXXASTTransformer::transform_ast's return value
    hoisted,          \* history: per child of new_ast, the members hoisting rewrote
    generated,        \* generate's return value, a sequence of text pieces
    cxx_pc,           \* "start", "transformed", "generated", "renormalized"
    \* ---- main ----
    input_file,       \* args.input_file, the path as text
    output_files,     \* args.output_files, each file's extension
    preamble_args,    \* args.preamble_comments
    compilation_info, \* main's CompilationInfo
    written,          \* the std::fs::write calls made, in order
    main_result,      \* main's return value, [tag |-> "Running"] before it
    main_pc           \* "lex", "outputs", "done"

lexer_vars  == <<contents, iterator, source_location, tokens, lex_result,
                 token_starts, token_ends>>
parser_vars == <<token_list, parse_result>>
cxx_vars    == <<ast, new_ast, hoisted, generated, cxx_pc>>
main_vars   == <<input_file, output_files, preamble_args, compilation_info,
                 written, main_result, main_pc>>
vars        == <<lexer_vars, parser_vars, cxx_vars, main_vars>>

\* ------------------------------------------------------------------ bounds
\* longest source text the lexer is run on
MaxLen == 4

\* longest token list the parser is run on
MaxTokens == 11

\* largest tree the C++ backend is run on: declarations plus plain members
MaxNodes == 3

\* the most output files of a run of main
MaxOutputs == 2

\* ================================================================== LEXER

\* char::is_whitespace, on the characters the model uses
is_whitespace(c) == c \in {" ", "\n", "\t", "\r"}

Letters == {"a", "b", "c", "d", "e", "f", "g", "h", "i", "j", "k", "l", "m",
            "n", "o", "p", "q", "r", "s", "t", "u", "v", "w", "x", "y", "z"}
Digits  == {"0", "1", "2", "3", "4", "5", "6", "7", "8", "9"}

\* char::is_alphanumeric, on the characters the model uses
is_alphanumeric(c) == c \in Letters \cup Digits

\* the eight single-character arms of lex_impl's match
IsGrammarChar(c) == c \in {"(", "{", "[", ")", "}", "]", ",", ":"}

GrammarTokenType(c) ==
    CASE c = "(" -> [kind |-> "LParen"]
      [] c = "{" -> [kind |-> "LCurly"]
      [] c = "[" -> [kind |-> "LSquare"]
      [] c = ")" -> [kind |-> "RParen"]
      [] c = "}" -> [kind |-> "RCurly"]
      [] c = "]" -> [kind |-> "RSquare"]
      [] c = "," -> [kind |-> "Comma"]
      [] c = ":" -> [kind |-> "Colon"]

\* the match of lex_name: the keyword table, Identifier(name) otherwise
NameTokenType(name) ==
    CASE name = <<"s","t","r","u","c","t">> -> [kind |-> "Struct"]
      [] name = <<"e","n","u","m">>         -> [kind |-> "Enum"]
      [] name = <<"u","8">>                 -> [kind |-> "U8"]
      [] name = <<"u","1","6">>             -> [kind |-> "U16"]
      [] name = <<"u","3","2">>             -> [kind |-> "U32"]
      [] name = <<"u","6","4">>             -> [kind |-> "U64"]
      [] name = <<"i","8">>                 -> [kind |-> "I8"]
      [] name = <<"i","1","6">>             -> [kind |-> "I16"]
      [] name = <<"i","3","2">>             -> [kind |-> "I32"]
      [] name = <<"i","6","4">>             -> [kind |-> "I64"]
      [] name = <<"f","3","2">>             -> [kind |-> "F32"]
      [] name = <<"f","6","4">>             -> [kind |-> "F64"]
      [] name = <<"s","t","r","i","n","g">> -> [kind |-> "String"]
      [] name = <<"c","h","a","r">>         -> [kind |-> "Char"]
      [] name = <<"b","o","o","l">>         -> [kind |-> "Bool"]
      [] name = <<"o","p","t","i","o","n">> -> [kind |-> "Option"]
      [] name = <<"a","r","r","a","y">>     -> [kind |-> "Array"]
      [] OTHER -> [kind |-> "Identifier", name |-> name]

\* SourceLocation::default
DefaultSourceLocation == [line |-> 1, position |-> 0]

\* Lexer::next's bookkeeping for a consumed character ch
AdvanceResetsOnly(loc, ch) ==
    IF ch = "\n" THEN [line |-> loc.line, position |-> 0]
                 ELSE [line |-> loc.line, position |-> loc.position + 1]

Advance(loc, ch) ==
    IF ch = "\n" THEN [line |-> loc.line + 1, position |-> 0]
                 ELSE [line |-> loc.line, position |-> loc.position + 1]

\* Lexer::peek: the next character, "None" at the end of the input
Peek(it) == IF it < Len(contents) THEN contents[it + 1] ELSE "None"

\* a loop that stops as soon as the name read so far is the keyword u8
RECURSIVE LexNameLoopStopsAtKeyword(_)
LexNameLoopStopsAtKeyword(lx) ==
    IF /\ Peek(lx.iterator) # "None"
       /\ is_alphanumeric(Peek(lx.iterator))
       /\ lx.name # <<"u", "8">>
    THEN LexNameLoopStopsAtKeyword(
             [iterator |-> lx.iterator + 1,
              source_location |->
                  Advance(lx.source_location, Peek(lx.iterator)),
              name |-> Append(lx.name, Peek(lx.iterator))])
    ELSE lx

\* the while loop of lex_name: lx is [iterator, source_location, name]
RECURSIVE LexNameLoop(_)
LexNameLoop(lx) ==
    IF Peek(lx.iterator) # "None" /\ is_alphanumeric(Peek(lx.iterator))
    THEN LexNameLoop([iterator |-> lx.iterator + 1,
                      source_location |->
                          Advance(lx.source_location, Peek(lx.iterator)),
                      name |-> Append(lx.name, Peek(lx.iterator))])
    ELSE lx

\* which location lex_name records on its token: the one cloned before the
\* loop (before) or the lexer's location after the loop (after)
NameLocationAfterRun(before, after) == after

NameLocation(before, after) == before

\* lex_name, entered with the lexer at it/loc (start_char already consumed):
\* the token and the lexer's state after it
lex_name(start_char, it, loc) ==
    LET end == LexNameLoop([iterator |-> it, source_location |-> loc,
                            name |-> <<start_char>>])
    IN  [token |-> [token_type |-> NameTokenType(end.name),
                    source_location |-> NameLocation(loc, end.source_location)],
         iterator |-> end.iterator,
         source_location |-> end.source_location]

LexRunning == lex_result.tag = "Running"

\* lex_impl, one iteration of the while loop on a whitespace character
LexWhitespace ==
    /\ LexRunning
    /\ Peek(iterator) # "None"
    /\ is_whitespace(Peek(iterator))
    /\ iterator' = iterator + 1
    /\ source_location' = Advance(source_location, Peek(iterator))
    /\ UNCHANGED <<contents, tokens, lex_result, token_starts, token_ends>>
    /\ UNCHANGED <<parser_vars, cxx_vars, main_vars>>

\* lex_impl, one iteration on one of the eight grammar characters
LexGrammar ==
    /\ LexRunning
    /\ Peek(iterator) # "None"
    /\ ~is_whitespace(Peek(iterator))
    /\ IsGrammarChar(Peek(iterator))
    /\ iterator' = iterator + 1
    /\ source_location' = Advance(source_location, Peek(iterator))
    /\ tokens' = Append(tokens,
                        [token_type |-> GrammarTokenType(Peek(iterator)),
                         source_location |-> source_location'])
    /\ token_starts' = Append(token_starts, iterator + 1)
    /\ token_ends' = Append(token_ends, iterator + 1)
    /\ UNCHANGED <<contents, lex_result>>
    /\ UNCHANGED <<parser_vars, cxx_vars, main_vars>>

\* lex_impl, one iteration on an alphanumeric character: the call of lex_name
LexName ==
    /\ LexRunning
    /\ Peek(iterator) # "None"
    /\ ~is_whitespace(Peek(iterator))
    /\ ~IsGrammarChar(Peek(iterator))
    /\ is_alphanumeric(Peek(iterator))
    /\ LET ch  == Peek(iterator)
           res == lex_name(ch, iterator + 1, Advance(source_location, ch))
       IN  /\ iterator' = res.iterator
           /\ source_location' = res.source_location
           /\ tokens' = Append(tokens, res.token)
           /\ token_starts' = Append(token_starts, iterator + 1)
           /\ token_ends' = Append(token_ends, res.iterator)
    /\ UNCHANGED <<contents, lex_result>>
    /\ UNCHANGED <<parser_vars, cxx_vars, main_vars>>

\* a lexer that steps over a character it does not know
LexUnknownSkips ==
    /\ LexRunning
    /\ Peek(iterator) # "None"
    /\ ~is_whitespace(Peek(iterator))
    /\ ~IsGrammarChar(Peek(iterator))
    /\ ~is_alphanumeric(Peek(iterator))
    /\ iterator' = iterator + 1
    /\ source_location' = Advance(source_location, Peek(iterator))
    /\ UNCHANGED <<contents, tokens, lex_result, token_starts, token_ends>>
    /\ UNCHANGED <<parser_vars, cxx_vars, main_vars>>

\* lex_impl, the last arm of the match: return Err(UnknownCharacterError)
LexUnknown ==
    /\ LexRunning
    /\ Peek(iterator) # "None"
    /\ ~is_whitespace(Peek(iterator))
    /\ ~IsGrammarChar(Peek(iterator))
    /\ ~is_alphanumeric(Peek(iterator))
    /\ iterator' = iterator + 1
    /\ source_location' = Advance(source_location, Peek(iterator))
    /\ lex_result' = [tag |-> "Err",
                      value |-> [error |-> "UnknownCharacterError",
                                 location |-> source_location']]
    /\ UNCHANGED <<contents, tokens, token_starts, token_ends>>
    /\ UNCHANGED <<parser_vars, cxx_vars, main_vars>>

\* lex_impl, the loop's exit: Ok(TokenList(tokens))
LexEnd ==
    /\ LexRunning
    /\ Peek(iterator) = "None"
    /\ lex_result' = [tag |-> "Ok", value |-> tokens]
    /\ UNCHANGED <<contents, iterator, source_location, tokens,
                   token_starts, token_ends>>
    /\ UNCHANGED <<parser_vars, cxx_vars, main_vars>>

\* the characters the source texts are drawn from: letters and a digit (u8 is
\* a keyword, u and 8u are not), both kinds of whitespace, two grammar
\* characters and a character the lexer does not know
SourceChars == {"u", "8", " ", "\n", "{", ",", "#"}

RECURSIVE TextsUpTo(_)
TextsUpTo(n) ==
    IF n = 0 THEN {<<>>}
    ELSE LET shorter == TextsUpTo(n - 1)
         IN  shorter \cup {Append(s, c) : s \in {t \in shorter : Len(t) = n - 1},
                                          c \in SourceChars}

ParserIdle == /\ token_list = <<>>
              /\ parse_result = [tag |-> "Idle"]
CxxIdle    == /\ ast = [kind |-> "DataDefinition", child_nodes |-> <<>>]
              /\ new_ast = [kind |-> "DataDefinition", child_nodes |-> <<>>]
              /\ hoisted = <<>>
              /\ generated = <<>>
              /\ cxx_pc = "idle"

\* main is not running
MainIdle ==
    /\ input_file = <<>>
    /\ output_files = <<>>
    /\ preamble_args = <<>>
    /\ compilation_info = [source_file_name |-> <<>>, preamble_comments |-> <<>>]
    /\ written = <<>>
    /\ main_result = [tag |-> "Idle"]
    /\ main_pc = "idle"

\* lex_tokens: the Lexer as constructed, on a source text of at most MaxLen
InitLex ==
    /\ contents \in TextsUpTo(MaxLen)
    /\ iterator = 0
    /\ source_location = DefaultSourceLocation
    /\ tokens = <<>>
    /\ lex_result = [tag |-> "Running"]
    /\ token_starts = <<>>
    /\ token_ends = <<>>
    /\ ParserIdle
    /\ CxxIdle
    /\ MainIdle

NextLex == LexWhitespace \/ LexGrammar \/ LexName \/ LexUnknown \/ LexEnd

SpecLex == InitLex /\ [][NextLex]_vars

\* ================================================================== PARSER

\* Option<&Token>: what token_iter.next() / token_iter.peek() yield with i
\* tokens of toks already consumed
TokenAt(toks, i) ==
    IF i < Len(toks) THEN [some |-> TRUE, token |-> toks[i + 1]]
                     ELSE [some |-> FALSE]

\* Result values of the parse functions: the value and the number of tokens
\* consumed so far, or the ParseError
POk(v, i) == [err |-> "None", val |-> v, pos |-> i]
PErr(e)   == [err |-> e]

\* unwrap_peek_or_error / unwrap_or_error: the error, "None" when Some
unwrap_or_error(token) ==
    IF token.some THEN "None" ELSE "UnexpectedEndOfTokens"

\* an assert_token that reports the end of the tokens as a wrong token
AssertTokenEndIsUnexpected(token, expected_token) ==
    IF token.some /\ token.token.token_type = expected_token
    THEN "None"
    ELSE "UnexpectedToken"

\* assert_token: the error, "None" when the token is the expected one
assert_token(token, expected_token) ==
    IF token.some
    THEN IF token.token.token_type = expected_token
         THEN "None"
         ELSE "UnexpectedToken"
    ELSE "UnexpectedEndOfTokens"

\* the DataType built by the TokenType::Option arm of parse_literal_type
OptionArm(inner) == [tag |-> "Option", inner |-> inner]

\* the DataType built by the TokenType::Array arm of parse_literal_type
ArrayArm(inner) == [tag |-> "Option", inner |-> inner]

\* a wildcard arm that takes any other token for a user-defined type name
LiteralTypeOtherAccepts(type_token, i) ==
    POk([tag |-> "UserDefined", name |-> <<>>], i)

\* the wildcard arm of parse_literal_type's match
LiteralTypeOther(type_token, i) == PErr("UnexpectedToken")

PrimitiveKinds == {"U8", "U16", "U32", "U64", "I8", "I16", "I32", "I64",
                   "F32", "F64", "String", "Char", "Bool"}

\* parse_literal_type, Option and Array arms after the inner type: the
\* closing parenthesis and the DataType
LiteralTypeClose(kind, toks, inner) ==
    IF inner.err # "None" THEN inner
    ELSE LET rparen == assert_token(TokenAt(toks, inner.pos),
                                    [kind |-> "RParen"])
         IN  IF rparen # "None" THEN PErr(rparen)
             ELSE POk(IF kind = "Option" THEN OptionArm(inner.val)
                                         ELSE ArrayArm(inner.val),
                      inner.pos + 1)

\* parse_literal_type, with i tokens consumed (type_token among them)
RECURSIVE parse_literal_type(_, _, _)
parse_literal_type(type_token, toks, i) ==
    CASE type_token.kind \in PrimitiveKinds ->
             POk([tag |-> type_token.kind], i)
      [] type_token.kind \in {"Option", "Array"} ->
             LET lparen == assert_token(TokenAt(toks, i), [kind |-> "LParen"])
                 first  == TokenAt(toks, i + 1)
             IN  IF lparen # "None" THEN PErr(lparen)
                 ELSE IF unwrap_or_error(first) # "None"
                 THEN PErr(unwrap_or_error(first))
                 ELSE LiteralTypeClose(
                          type_token.kind, toks,
                          parse_literal_type(first.token.token_type,
                                             toks, i + 2))
      [] type_token.kind = "Identifier" ->
             POk([tag |-> "UserDefined", name |-> type_token.name], i)
      [] OTHER -> LiteralTypeOther(type_token, i)

RECURSIVE parse_named_statement_list(_, _)
RECURSIVE parse_named_statement_list_children(_, _, _)
RECURSIVE parse_struct_member_type_declaration(_, _)
RECURSIVE MemberParsed(_, _, _)

\* ASTNode::StructDeclaration(list?) / ASTNode::EnumDeclaration(list?) for
\* the keyword token of kind "Struct" / "Enum"
DeclarationNode(keyword, list) ==
    IF list.err # "None" THEN list
    ELSE POk([kind |-> IF keyword = "Struct" THEN "StructDeclaration"
                                             ELSE "EnumDeclaration",
              name |-> list.val.name,
              child_nodes |-> list.val.child_nodes],
             list.pos)

\* ASTNode::TypeLiteral(type?)
TypeLiteralNode(type) ==
    IF type.err # "None" THEN type
    ELSE POk([kind |-> "TypeLiteral", data_type |-> type.val], type.pos)

\* parse_struct_member_type_declaration
parse_struct_member_type_declaration(toks, i) ==
    LET token == TokenAt(toks, i)
    IN  IF unwrap_or_error(token) # "None" THEN PErr(unwrap_or_error(token))
        ELSE IF token.token.token_type.kind \in {"Struct", "Enum"}
        THEN DeclarationNode(token.token.token_type.kind,
                             parse_named_statement_list(toks, i + 1))
        ELSE TypeLiteralNode(parse_literal_type(token.token.token_type,
                                                toks, i + 1))

\* ASTNode::StructMemberDeclaration { name, data_type: type? }
StructMemberNode(name, type) ==
    IF type.err # "None" THEN type
    ELSE POk([kind |-> "StructMemberDeclaration",
              name |-> name,
              data_type |-> type.val],
             type.pos)

\* the match on following_token: the member, with i tokens consumed (the
\* name and following_token among them)
MemberNode(toks, i, name, following_token) ==
    CASE following_token.token_type.kind = "Colon" ->
             StructMemberNode(name,
                              parse_struct_member_type_declaration(toks, i))
      [] following_token.token_type.kind = "Comma" ->
             POk([kind |-> "EnumMemberDeclaration", name |-> name], i)
      [] OTHER -> PErr("UnexpectedToken")

\* a member loop that leaves the comma after a member to the next iteration
PotentialCommaLeft(potential_comma, pos) == pos

\* if let TokenType::Comma = potential_comma.token_type { token_iter.next() }:
\* the number of tokens consumed after it, pos before it
IterateOverComma(potential_comma, pos) ==
    IF potential_comma.token.token_type.kind = "Comma" THEN pos + 1 ELSE pos

\* parse_named_statement_list_children: the loop body after the match, the
\* push of member, the peek at potential_comma and the next iteration
MemberParsed(toks, ret_val, member) ==
    IF member.err # "None" THEN member
    ELSE LET potential_comma == TokenAt(toks, member.pos)
         IN  IF unwrap_or_error(potential_comma) # "None"
             THEN PErr(unwrap_or_error(potential_comma))
             ELSE parse_named_statement_list_children(
                      toks,
                      IterateOverComma(potential_comma, member.pos),
                      Append(ret_val, member.val))

\* parse_named_statement_list_children: the loop, entered with i tokens
\* consumed and ret_val as collected so far
parse_named_statement_list_children(toks, i, ret_val) ==
    LET name_token == TokenAt(toks, i)
        following_token == TokenAt(toks, i + 1)
    IN  IF unwrap_or_error(name_token) # "None"
        THEN PErr(unwrap_or_error(name_token))
        ELSE IF name_token.token.token_type.kind # "Identifier"
        THEN POk(ret_val, i)                                      \* break
        ELSE IF unwrap_or_error(following_token) # "None"
        THEN PErr(unwrap_or_error(following_token))
        ELSE MemberParsed(toks, ret_val,
                          MemberNode(toks, i + 2,
                                     name_token.token.token_type.name,
                                     following_token.token))

\* parse_named_statement_list after its children: the closing brace and the
\* NamedStatementList
StatementListClose(toks, name, children) ==
    IF children.err # "None" THEN children
    ELSE LET rcurly == assert_token(TokenAt(toks, children.pos),
                                    [kind |-> "RCurly"])
         IN  IF rcurly # "None" THEN PErr(rcurly)
             ELSE POk([name |-> name, child_nodes |-> children.val],
                      children.pos + 1)

\* parse_named_statement_list: the NamedStatementList, entered after the
\* struct or enum keyword
parse_named_statement_list(toks, i) ==
    LET name_token == TokenAt(toks, i)
        lcurly == assert_token(TokenAt(toks, i + 1), [kind |-> "LCurly"])
    IN  IF unwrap_or_error(name_token) # "None"
        THEN PErr(unwrap_or_error(name_token))
        ELSE IF name_token.token.token_type.kind # "Identifier"
        THEN PErr("UnexpectedToken")
        ELSE IF lcurly # "None" THEN PErr(lcurly)
        ELSE StatementListClose(
                 toks, name_token.token.token_type.name,
                 parse_named_statement_list_children(toks, i + 2, <<>>))

\* parse: one top-level declaration
parse(toks, i) ==
    LET token == TokenAt(toks, i)
    IN  IF unwrap_or_error(token) # "None" THEN PErr(unwrap_or_error(token))
        ELSE IF token.token.token_type.kind \in {"Struct", "Enum"}
        THEN DeclarationNode(token.token.token_type.kind,
                             parse_named_statement_list(toks, i + 1))
        ELSE PErr("UnexpectedToken")

RECURSIVE ParseTokensLoop(_, _, _)

\* parse_tokens: base_ast_node.child_nodes.push(parse(&mut iterator)?) and
\* the next iteration
ChildParsed(toks, child_nodes, node) ==
    IF node.err # "None" THEN node
    ELSE ParseTokensLoop(toks, node.pos, Append(child_nodes, node.val))

\* the while loop of parse_tokens, with i tokens consumed
ParseTokensLoop(toks, i, child_nodes) ==
    IF ~TokenAt(toks, i).some
    THEN POk([kind |-> "DataDefinition", child_nodes |-> child_nodes], i)
    ELSE ChildParsed(toks, child_nodes, parse(toks, i))

\* Result<ASTNode, ParseError> from the model's result record
ParseResult(r) ==
    IF r.err = "None" THEN [tag |-> "Ok", value |-> r.val]
                      ELSE [tag |-> "Err", value |-> r.err]

\* parse_tokens: Ok(ASTNode::DataDefinition) or Err(ParseError)
parse_tokens(toks) == ParseResult(ParseTokensLoop(toks, 0, <<>>))

\* the token types the token lists are drawn from
Ident(n) == [kind |-> "Identifier", name |-> n]

TokenTypes ==
    {[kind |-> k] : k \in {"Struct", "Enum", "LCurly", "RCurly", "LParen",
                           "RParen", "Comma", "Colon", "U32", "Option",
                           "Array"}}
    \cup {Ident(<<"a">>), Ident(<<"b">>)}

LexerIdle == /\ contents = <<>>
             /\ iterator = 0
             /\ source_location = DefaultSourceLocation
             /\ tokens = <<>>
             /\ lex_result = [tag |-> "Idle"]
             /\ token_starts = <<>>
             /\ token_ends = <<>>

\* parse_tokens on the empty token list
InitParse ==
    /\ token_list = <<>>
    /\ parse_result = parse_tokens(<<>>)
    /\ LexerIdle
    /\ CxxIdle
    /\ MainIdle

\* parse_tokens on the token list longer by one token.  A list one of whose
\* prefixes already fails with UnexpectedToken is not extended: the parser
\* reads left to right and returns at the first error, so every extension
\* fails the same way.
ParseTokens(tt) ==
    /\ Len(token_list) < MaxTokens
    /\ parse_result # [tag |-> "Err", value |-> "UnexpectedToken"]
    /\ token_list' = Append(token_list,
                            [token_type |-> tt,
                             source_location |-> DefaultSourceLocation])
    /\ parse_result' = parse_tokens(token_list')
    /\ UNCHANGED <<lexer_vars, cxx_vars, main_vars>>

NextParse == \E tt \in TokenTypes : ParseTokens(tt)

SpecParse == InitParse /\ [][NextParse]_vars

\* ================================================================== C++ BACKEND

\* DataDefinition::default
DefaultDataDefinition == [kind |-> "DataDefinition", child_nodes |-> <<>>]

\* self.new_ast.child_nodes.push(node); self is the transformer's new_ast
\* (child_nodes) with the history of which members of each pushed
\* declaration were rewritten by hoisting (hoisted)
PushFront(self, node, rewritten) ==
    [child_nodes |-> <<node>> \o self.child_nodes,
     hoisted |-> <<rewritten>> \o self.hoisted]

Push(self, node, rewritten) ==
    [child_nodes |-> Append(self.child_nodes, node),
     hoisted |-> Append(self.hoisted, rewritten)]

\* the member pushed in place of one whose type is an inline declaration
NewMemberKeepsInline(member_declaration) == member_declaration

NewMember(member_declaration) ==
    [kind |-> "StructMemberDeclaration",
     name |-> member_declaration.name,
     data_type |-> [kind |-> "TypeLiteral",
                    data_type |-> [tag |-> "UserDefined",
                                   name |-> member_declaration.data_type.name]]]

\* a push that puts the member in front of the members pushed before it
PushMemberFront(pushed_struct, member) ==
    [name |-> pushed_struct.name,
     child_nodes |-> <<member>> \o pushed_struct.child_nodes]

\* pushed_struct.child_nodes.push(member)
PushMember(pushed_struct, member) ==
    [name |-> pushed_struct.name,
     child_nodes |-> Append(pushed_struct.child_nodes, member)]

RECURSIVE transform_ast_impl(_, _)
RECURSIVE TransformMembers(_, _, _, _, _)
RECURSIVE TransformChildren(_, _, _)

\* transform_ast_impl, StructDeclaration arm: the for loop over the members
\* from the k-th on, then the push of pushed_struct
TransformMembers(self, struct_declaration, k, pushed_struct, rewritten) ==
    IF k > Len(struct_declaration.child_nodes)
    THEN Push(self,
              [kind |-> "StructDeclaration",
               name |-> pushed_struct.name,
               child_nodes |-> pushed_struct.child_nodes],
              rewritten)
    ELSE LET member == struct_declaration.child_nodes[k]
         IN  IF member.kind = "StructMemberDeclaration"
             THEN IF member.data_type.kind \in {"StructDeclaration",
                                                "EnumDeclaration"}
                  THEN TransformMembers(
                           transform_ast_impl(self, member.data_type),
                           struct_declaration, k + 1,
                           PushMember(pushed_struct, NewMember(member)),
                           rewritten \cup
                               {Len(pushed_struct.child_nodes) + 1})
                  ELSE TransformMembers(self, struct_declaration, k + 1,
                                        PushMember(pushed_struct, member),
                                        rewritten)
             ELSE TransformMembers(self, struct_declaration, k + 1,
                                   pushed_struct, rewritten)

\* transform_ast_impl, DataDefinition arm: the for loop from the k-th child
TransformChildren(self, child_nodes, k) ==
    IF k > Len(child_nodes) THEN self
    ELSE TransformChildren(transform_ast_impl(self, child_nodes[k]),
                           child_nodes, k + 1)

\* CXXASTTransformer::transform_ast_impl
transform_ast_impl(self, node) ==
    CASE node.kind = "StructDeclaration" ->
             TransformMembers(self, node, 1,
                              [name |-> node.name, child_nodes |-> <<>>], {})
      [] node.kind = "EnumDeclaration" -> Push(self, node, {})
      [] node.kind = "DataDefinition" ->
             TransformChildren(self, node.child_nodes, 1)
      [] OTHER -> self

\* a transformer kept from one call to the next: it starts from the tree the
\* call before left
TransformAstKeepingTree(node) ==
    transform_ast_impl([child_nodes |-> new_ast.child_nodes,
                        hoisted |-> hoisted],
                       node)

\* CXXASTTransformer::transform_ast: the transformer after the walk
transform_ast(node) ==
    transform_ast_impl([child_nodes |-> DefaultDataDefinition.child_nodes,
                        hoisted |-> <<>>],
                       node)

\* generate_type_name
RECURSIVE generate_type_name(_)
generate_type_name(data_type) ==
    CASE data_type.tag = "U8" ->
             <<"s","t","d",":",":","u","i","n","t","8","_","t">>
      [] data_type.tag = "I8" ->
             <<"s","t","d",":",":","i","n","t","8","_","t">>
      [] data_type.tag = "U16" ->
             <<"s","t","d",":",":","u","i","n","t","1","6","_","t">>
      [] data_type.tag = "I16" ->
             <<"s","t","d",":",":","i","n","t","1","6","_","t">>
      [] data_type.tag = "U32" ->
             <<"s","t","d",":",":","u","i","n","t","3","2","_","t">>
      [] data_type.tag = "I32" ->
             <<"s","t","d",":",":","i","n","t","3","2","_","t">>
      [] data_type.tag = "U64" ->
             <<"s","t","d",":",":","u","i","n","t","6","4","_","t">>
      [] data_type.tag = "I64" ->
             <<"s","t","d",":",":","i","n","t","6","4","_","t">>
      [] data_type.tag = "F32" ->
             <<"f","l","o","a","t">>
      [] data_type.tag = "F64" ->
             <<"d","o","u","b","l","e">>
      [] data_type.tag = "Char" ->
             <<"c","h","a","r">>
      [] data_type.tag = "String" ->
             <<"s","t","d",":",":","s","t","r","i","n","g">>
      [] data_type.tag = "Bool" ->
             <<"b","o","o","l">>
      [] data_type.tag = "Option" ->
             <<"s","t","d",":",":","o","p","t","i","o","n","a","l","<">> \o generate_type_name(data_type.inner) \o <<">">>
      [] data_type.tag = "Array" ->
             <<"s","t","d",":",":","v","e","c","t","o","r","<">> \o generate_type_name(data_type.inner) \o <<">">>
      [] data_type.tag = "UserDefined" -> data_type.name

\* the first part of format!("struct {} {{ {} }};") / format!("enum class {}
\* {{ {} }};"): the text up to the body
DeclarationHead(node) ==
    (IF node.kind = "StructDeclaration"
     THEN <<"s","t","r","u","c","t"," ">>
     ELSE <<"e","n","u","m"," ","c","l","a","s","s"," ">>)
    \o node.name \o <<" ", "{", " ">>

RECURSIVE generate(_)
RECURSIVE GenerateFold(_, _)
RECURSIVE GenerateJoin(_, _)

\* .iter().map(generate).fold(String::new(), |acc, x| acc + &x), from the
\* k-th child on
GenerateFold(child_nodes, k) ==
    IF k > Len(child_nodes) THEN <<>>
    ELSE generate(child_nodes[k]) \o GenerateFold(child_nodes, k + 1)

\* .iter().map(generate).collect::<Vec<String>>().join(","), from the k-th
\* child on
GenerateJoin(child_nodes, k) ==
    IF k > Len(child_nodes) THEN <<>>
    ELSE (IF k > 1 THEN <<",">> ELSE <<>>)
         \o generate(child_nodes[k]) \o GenerateJoin(child_nodes, k + 1)

\* generate: the text, a sequence of characters
generate(node) ==
    CASE node.kind = "StructDeclaration" ->
             DeclarationHead(node) \o GenerateFold(node.child_nodes, 1)
                 \o <<" ", "}", ";">>
      [] node.kind = "EnumDeclaration" ->
             DeclarationHead(node) \o GenerateJoin(node.child_nodes, 1)
                 \o <<" ", "}", ";">>
      [] node.kind = "StructMemberDeclaration" ->
             generate(node.data_type) \o <<" ">> \o node.name \o <<";">>
      [] node.kind = "EnumMemberDeclaration" -> node.name
      [] node.kind = "TypeLiteral" -> generate_type_name(node.data_type)
      [] node.kind = "DataDefinition" -> GenerateFold(node.child_nodes, 1)

\* ---- the trees the backend is run on: every DataDefinition the parser can
\* ---- produce with at most MaxNodes declarations and plain members

DeclNames == {<<"a">>, <<"b">>}

\* members without an inline declaration
PlainMembers ==
    {[kind |-> "EnumMemberDeclaration", name |-> <<"m">>]}
    \cup {[kind |-> "StructMemberDeclaration", name |-> <<"m">>,
           data_type |-> [kind |-> "TypeLiteral", data_type |-> t]] :
             t \in {[tag |-> "U32"],
                    [tag |-> "UserDefined", name |-> <<"a">>]}}

\* members of size n, given the declarations of size n: a plain member has
\* size 1, a member with an inline declaration the size of that declaration
MembersOfSize(decls, n) ==
    (IF n = 1 THEN PlainMembers ELSE {})
    \cup {[kind |-> "StructMemberDeclaration", name |-> <<"m">>,
           data_type |-> d] : d \in decls}

\* sequences of size n of the elements items[k] of size k, given lists[j + 1],
\* the sequences of size j, for every j below n
ListsOfSize(items, lists, n) ==
    UNION {{<<x>> \o rest : x \in items[k], rest \in lists[n - k + 1]} :
              k \in 1..n}

\* declarations of size n, given the member lists of size n - 1: 1 plus the
\* sizes of the members
DeclarationsOfSize(member_lists) ==
    {[kind |-> kd, name |-> nm, child_nodes |-> ms] :
        kd \in {"StructDeclaration", "EnumDeclaration"},
        nm \in DeclNames,
        ms \in member_lists}

\* the declarations of size up to MaxNodes (decls[k]: those of size k),
\* built from size n on with the tables of members (members[k]: of size k)
\* and of member lists (lists[k + 1]: of size k)
RECURSIVE TreeTables(_, _, _, _)
TreeTables(decls, members, lists, n) ==
    IF n > MaxNodes THEN decls
    ELSE LET d == DeclarationsOfSize(lists[n])
             m == Append(members, MembersOfSize(d, n))
         IN  TreeTables(Append(decls, d), m,
                        Append(lists, ListsOfSize(m, lists, n)), n + 1)

\* lists of top-level declarations of size up to MaxNodes, built from size n
\* on with lists[k + 1], those of size k
RECURSIVE DeclarationLists(_, _, _)
DeclarationLists(decls, lists, n) ==
    IF n > MaxNodes THEN UNION {lists[k] : k \in 1..Len(lists)}
    ELSE DeclarationLists(decls, Append(lists, ListsOfSize(decls, lists, n)),
                          n + 1)

DataDefinitions ==
    {[kind |-> "DataDefinition", child_nodes |-> ds] :
        ds \in DeclarationLists(TreeTables(<<>>, <<>>, <<{<<>>}>>, 1),
                                <<{<<>>}>>, 1)}

\* cxx::generate_code about to run on a tree
InitCxx ==
    /\ ast \in DataDefinitions
    /\ new_ast = DefaultDataDefinition
    /\ hoisted = <<>>
    /\ generated = <<>>
    /\ cxx_pc = "start"
    /\ LexerIdle
    /\ ParserIdle
    /\ MainIdle

\* generate_code: let new_ast = CXXASTTransformer::transform_ast(ast)
Transform ==
    /\ cxx_pc = "start"
    /\ LET transformer == transform_ast(ast)
       IN  /\ new_ast' = [kind |-> "DataDefinition",
                          child_nodes |-> transformer.child_nodes]
           /\ hoisted' = transformer.hoisted
    /\ cxx_pc' = "transformed"
    /\ UNCHANGED <<ast, generated>>
    /\ UNCHANGED <<lexer_vars, parser_vars, main_vars>>

\* generate_code: generate(&new_ast)
Generate ==
    /\ cxx_pc = "transformed"
    /\ generated' = generate(new_ast)
    /\ cxx_pc' = "generated"
    /\ UNCHANGED <<ast, new_ast, hoisted>>
    /\ UNCHANGED <<lexer_vars, parser_vars, main_vars>>

\* CXXASTTransformer::transform_ast called on the tree it returned
Renormalize ==
    /\ cxx_pc = "transformed"
    /\ ast' = new_ast
    /\ LET transformer == transform_ast(new_ast)
       IN  /\ new_ast' = [kind |-> "DataDefinition",
                          child_nodes |-> transformer.child_nodes]
           /\ hoisted' = transformer.hoisted
    /\ cxx_pc' = "renormalized"
    /\ UNCHANGED generated
    /\ UNCHANGED <<lexer_vars, parser_vars, main_vars>>

NextCxx == Transform \/ Generate \/ Renormalize

SpecCxx == InitCxx /\ [][NextCxx]_vars

\* ========================================================= TYPESCRIPT BACKEND

\* Result<String, CompilationError> of the generator functions
TOk(text) == [err |-> "None", text |-> text]
TErr(e)   == [err |-> e]

\* generate_type_name of ts_mobx.rs
RECURSIVE ts_generate_type_name(_)
ts_generate_type_name(type_name) ==
    CASE type_name.tag \in {"U8", "I8", "U16", "I16", "U32", "I32", "U64",
                            "I64", "F32", "F64"} ->
             <<"t","y","p","e","s",".","n","u","m">>
      [] type_name.tag = "Char" ->
             <<"t","y","p","e","s",".","c","h","a","r">>
      [] type_name.tag = "String" ->
             <<"t","y","p","e","s",".","s","t","r","i","n","g">>
      [] type_name.tag = "Bool" ->
             <<"t","y","p","e","s",".","b","o","o","l">>
      [] type_name.tag = "Option" ->
             <<"t","y","p","e","s",".","m","a","y","b","e","(">>
                 \o ts_generate_type_name(type_name.inner) \o <<")">>
      [] type_name.tag = "Array" ->
             <<"t","y","p","e","s",".","a","r","r","a","y","(">>
                 \o ts_generate_type_name(type_name.inner) \o <<")">>
      [] type_name.tag = "UserDefined" -> type_name.name

RECURSIVE ts_generate_code(_)
RECURSIVE TsTryFold(_, _, _)
RECURSIVE TsTopLevelFold(_, _, _)

\* the closure of try_fold in a declaration: Ok(acc + &generate_code(node)?
\* + ", "), then the next child
TsFoldStep(child_nodes, k, acc, code) ==
    IF code.err # "None" THEN code
    ELSE TsTryFold(child_nodes, k + 1, acc \o code.text \o <<",", " ">>)

\* child_nodes.iter().try_fold("".to_owned(), ..) from the k-th child on
TsTryFold(child_nodes, k, acc) ==
    IF k > Len(child_nodes) THEN TOk(acc)
    ELSE TsFoldStep(child_nodes, k, acc, ts_generate_code(child_nodes[k]))

\* format!("types.model({{ {} }})", ..?) / format!("types.enum([ {} ])", ..?)
TsDeclaration(kind, body) ==
    IF body.err # "None" THEN body
    ELSE IF kind = "StructDeclaration"
         THEN TOk(<<"t","y","p","e","s",".","m","o","d","e","l","(","{"," ">> \o body.text \o <<" ","}",")">>)
         ELSE TOk(<<"t","y","p","e","s",".","e","n","u","m","(","["," ">> \o body.text \o <<" ","]",")">>)

\* format!("{}: {}", struct_member.name, generate_code(data_type)?)
TsStructMember(name, code) ==
    IF code.err # "None" THEN code
    ELSE TOk(name \o <<":", " ">> \o code.text)

\* format!("export const {} = {}; export type {}SnapshotType =
\* SnapshotIn<typeof {}>;", name, generate_code(ast)?, name, name)
TsExport(name, code) ==
    IF code.err # "None" THEN code
    ELSE TOk(<<"e","x","p","o","r","t"," ","c","o","n","s","t"," ">> \o name \o <<" ","="," ">> \o code.text
             \o <<";"," ","e","x","p","o","r","t"," ","t","y","p","e"," ">> \o name
             \o <<"S","n","a","p","s","h","o","t","T","y","p","e"," ","="," ","S","n","a","p","s","h","o","t","I","n","<","t","y","p","e","o","f"," ">> \o name \o <<">",";">>)

\* a generator that exports the model without its snapshot type
TopLevelDefinitionWithoutAlias(ast_node) ==
    IF ast_node.kind \in {"StructDeclaration", "EnumDeclaration"}
    THEN LET code == ts_generate_code(ast_node)
         IN  IF code.err # "None" THEN code
             ELSE TOk(<<"e","x","p","o","r","t"," ","c","o","n","s","t"," ">> \o ast_node.name \o <<" ","="," ">>
                      \o code.text \o <<";">>)
    ELSE TErr("InvalidAST")

\* generate_top_level_type_definition
generate_top_level_type_definition(ast_node) ==
    IF ast_node.kind \in {"StructDeclaration", "EnumDeclaration"}
    THEN TsExport(ast_node.name, ts_generate_code(ast_node))
    ELSE TErr("InvalidAST")

\* the closure of try_fold in the DataDefinition arm:
\* Ok(acc + &generate_top_level_type_definition(node)?), then the next child
TsTopLevelStep(child_nodes, k, acc, code) ==
    IF code.err # "None" THEN code
    ELSE TsTopLevelFold(child_nodes, k + 1, acc \o code.text)

TsTopLevelFold(child_nodes, k, acc) ==
    IF k > Len(child_nodes) THEN TOk(acc)
    ELSE TsTopLevelStep(child_nodes, k, acc,
                        generate_top_level_type_definition(child_nodes[k]))

\* generate_code of ts_mobx.rs
ts_generate_code(ast_node) ==
    CASE ast_node.kind \in {"StructDeclaration", "EnumDeclaration"} ->
             TsDeclaration(ast_node.kind,
                           TsTryFold(ast_node.child_nodes, 1, <<>>))
      [] ast_node.kind = "StructMemberDeclaration" ->
             TsStructMember(ast_node.name, ts_generate_code(ast_node.data_type))
      [] ast_node.kind = "EnumMemberDeclaration" ->
             TOk(<<"'">> \o ast_node.name \o <<"'">>)
      [] ast_node.kind = "TypeLiteral" ->
             TOk(ts_generate_type_name(ast_node.data_type))
      [] ast_node.kind = "DataDefinition" ->
             TsTopLevelFold(ast_node.child_nodes, 1, <<>>)

\* a join that puts nothing between the comment lines
RECURSIVE PreambleJoinWithoutNewline(_, _)
PreambleJoinWithoutNewline(comments, k) ==
    IF k > Len(comments) THEN <<>>
    ELSE <<"/", "/", " ">> \o comments[k]
         \o PreambleJoinWithoutNewline(comments, k + 1)

\* .map(|preamble| format!("// {}", preamble)).collect().join("\n"), from
\* the k-th comment on
RECURSIVE PreambleJoin(_, _)
PreambleJoin(comments, k) ==
    IF k > Len(comments) THEN <<>>
    ELSE (IF k > 1 THEN <<"\n">> ELSE <<>>)
         \o <<"/", "/", " ">> \o comments[k] \o PreambleJoin(comments, k + 1)

\* generate_preamble
generate_preamble(info) == PreambleJoin(info.preamble_comments, 1)

\* Ok(format!("{}\n{}", generate_preamble(compilation_info),
\* generate_code(ast)?))
TsWithPreamble(preamble, code) ==
    IF code.err # "None" THEN code
    ELSE TOk(preamble \o <<"\n">> \o code.text)

\* <TSMobXGenerator as CompilationTarget>::generate_code
TSMobXGenerator_generate_code(ast_node, info) ==
    TsWithPreamble(generate_preamble(info), ts_generate_code(ast_node))

\* ============================================================ TARGET, MAIN

\* a lookup that folds the identifier to lower case first
ToLowercase(s) ==
    CASE s = "CXX" -> "cxx"
      [] s = "Cpp" -> "cpp"
      [] s = "H"   -> "h"
      [] s \in {"TS", "Ts"} -> "ts"
      [] OTHER     -> s

\* the match of Target::from_str
TargetOf(s) ==
    CASE s \in {"cxx", "cpp", "c++", "h"} ->
             [tag |-> "Ok", value |-> "CXXGenerator"]
      [] s \in {"ts-mobx", "typescript-mobx", "ts"} ->
             [tag |-> "Ok", value |-> "TSMobXGenerator"]
      [] OTHER ->
             [tag |-> "Err",
              value |-> [error |-> "UnknownTarget", name |-> s]]

FromStrIgnoringCase(s) == TargetOf(ToLowercase(s))

\* Target::from_str
from_str(s) == TargetOf(s)

DataDefinitionOf(child_nodes) ==
    [kind |-> "DataDefinition", child_nodes |-> child_nodes]

\* cxx::generate_code from the transformer's result: the transformed tree,
\* the members hoisting rewrote, and the generated text
CxxGenerated(transformer) ==
    [new_ast |-> DataDefinitionOf(transformer.child_nodes),
     hoisted |-> transformer.hoisted,
     text    |-> generate(DataDefinitionOf(transformer.child_nodes))]

\* cxx::generate_code
cxx_generate_code(ast_node) == CxxGenerated(transform_ast(ast_node))

\* <CXXGenerator as CompilationTarget>::generate_code: the String of
\* cxx::generate_code as the Ok of the trait's Result
CXXGenerator_generate_code(text) == TOk(text)

\* main: first_preamble_comment followed by the --preamble-comments
MainCompilationInfo(file_name, comments) ==
    [source_file_name |-> file_name,
     preamble_comments |->
         <<<<"T","h","i","s"," ","f","i","l","e"," ","h","a","s"," ","b","e","e","n"," ","g","e","n","e","r","a","t","e","d"," ","f","r","o","m"," ","'">> \o file_name \o <<"'">>>>
         \o comments]

MainRunning == [tag |-> "Running"]

\* main: lexer::lex_tokens(input_contents)? returns the LexError
MainLexFailed ==
    /\ main_pc = "lex"
    /\ lex_result.tag = "Err"
    /\ main_result' = lex_result
    /\ main_pc' = "done"
    /\ UNCHANGED <<lexer_vars, parser_vars, cxx_vars>>
    /\ UNCHANGED <<input_file, output_files, preamble_args, compilation_info,
                   written>>

\* main: parser::parse_tokens(tokens)? and the CompilationInfo
MainParse ==
    /\ main_pc = "lex"
    /\ lex_result.tag = "Ok"
    /\ token_list' = lex_result.value
    /\ parse_result' = parse_tokens(lex_result.value)
    /\ IF parse_result'.tag = "Ok"
       THEN /\ ast' = parse_result'.value
            /\ compilation_info' = MainCompilationInfo(input_file, preamble_args)
            /\ main_pc' = "outputs"
            /\ UNCHANGED main_result
       ELSE /\ main_result' = parse_result'
            /\ main_pc' = "done"
            /\ UNCHANGED <<ast, compilation_info>>
    /\ UNCHANGED <<lexer_vars, new_ast, hoisted, generated, cxx_pc>>
    /\ UNCHANGED <<input_file, output_files, preamble_args, written>>

\* the file of the loop's current iteration: its extension
CurrentFile == output_files[Len(written) + 1]

OutputPending ==
    /\ main_pc = "outputs"
    /\ Len(written) < Len(output_files)

\* std::fs::write(file, text)
Write(text) ==
    Append(written, [file |-> Len(written) + 1,
                     extension |-> CurrentFile,
                     contents |-> text])

\* main, an iteration of the loop: Target::from_str(extension)? fails
OutputUnknownTarget ==
    /\ OutputPending
    /\ from_str(CurrentFile).tag = "Err"
    /\ main_result' = from_str(CurrentFile)
    /\ main_pc' = "done"
    /\ UNCHANGED <<lexer_vars, parser_vars, cxx_vars>>
    /\ UNCHANGED <<input_file, output_files, preamble_args, compilation_info,
                   written>>

\* main, an iteration of the loop with the C++ generator
OutputCxx ==
    /\ OutputPending
    /\ from_str(CurrentFile) = [tag |-> "Ok", value |-> "CXXGenerator"]
    /\ LET run == cxx_generate_code(ast)
       IN  /\ new_ast' = run.new_ast
           /\ hoisted' = run.hoisted
           /\ generated' = run.text
           /\ written' = Write(CXXGenerator_generate_code(run.text).text)
    /\ cxx_pc' = "generated"
    /\ UNCHANGED <<lexer_vars, parser_vars, ast>>
    /\ UNCHANGED <<input_file, output_files, preamble_args, compilation_info,
                   main_result, main_pc>>

\* main, an iteration of the loop with the TypeScript generator
OutputTs ==
    /\ OutputPending
    /\ from_str(CurrentFile) = [tag |-> "Ok", value |-> "TSMobXGenerator"]
    /\ LET code == TSMobXGenerator_generate_code(ast, compilation_info)
       IN  IF code.err # "None"
           THEN /\ main_result' = [tag |-> "Err", value |-> [error |-> code.err]]
                /\ main_pc' = "done"
                /\ UNCHANGED written
           ELSE /\ written' = Write(code.text)
                /\ UNCHANGED <<main_result, main_pc>>
    /\ UNCHANGED <<lexer_vars, parser_vars, cxx_vars>>
    /\ UNCHANGED <<input_file, output_files, preamble_args, compilation_info>>

\* main: Ok(()) after the loop
MainDone ==
    /\ main_pc = "outputs"
    /\ Len(written) = Len(output_files)
    /\ main_result' = [tag |-> "Ok"]
    /\ main_pc' = "done"
    /\ UNCHANGED <<lexer_vars, parser_vars, cxx_vars>>
    /\ UNCHANGED <<input_file, output_files, preamble_args, compilation_info,
                   written>>

\* ---- the runs of main: source texts, output files, preamble comments

\* declarations as source text
DeclarationTexts ==
    {<<"s","t","r","u","c","t"," ","a","{","b",":","u","8","}">>,
     <<"e","n","u","m"," ","a","{","b",",","c",",","}">>,
     <<"s","t","r","u","c","t"," ","b","{","a",":","a"," ","c",":","o","p","t","i","o","n","(","f","3","2",")",",","}">>,
     <<"s","t","r","u","c","t"," ","a","{","b",":","s","t","r","u","c","t"," ","c","{","d",":","e","n","u","m"," ","e","{","f",",","}","}",",","g",":","u","8","}">>}

\* one or two declarations, and texts the lexer or the parser rejects
MainTexts ==
    DeclarationTexts
    \cup {d1 \o <<"\n">> \o d2 : d1 \in DeclarationTexts, d2 \in DeclarationTexts}
    \cup {<<"s","t","r","u","c","t"," ","a","{","#","}">>, <<"s","t","r","u","c","t"," ","a","{","b","}">>, <<"e","n","u","m"," ","a">>, <<>>}

\* the extensions of the output files
Extensions == {"h", "cxx", "ts", "CXX", "bogus"}

RECURSIVE ListsUpTo(_, _)
ListsUpTo(items, n) ==
    IF n = 0 THEN {<<>>}
    ELSE LET shorter == ListsUpTo(items, n - 1)
         IN  shorter \cup {Append(l, x) : l \in {s \in shorter : Len(s) = n - 1},
                                          x \in items}

PreambleComments == {<<"x">>, <<"y"," ","z">>}

InitMain ==
    /\ contents \in MainTexts
    /\ iterator = 0
    /\ source_location = DefaultSourceLocation
    /\ tokens = <<>>
    /\ lex_result = [tag |-> "Running"]
    /\ token_starts = <<>>
    /\ token_ends = <<>>
    /\ ParserIdle
    /\ CxxIdle
    /\ input_file = <<"d",".","f","b">>
    /\ output_files \in ListsUpTo(Extensions, MaxOutputs)
    /\ preamble_args \in ListsUpTo(PreambleComments, 1)
    /\ compilation_info = [source_file_name |-> <<>>, preamble_comments |-> <<>>]
    /\ written = <<>>
    /\ main_result = MainRunning
    /\ main_pc = "lex"

NextMain ==
    \/ LexWhitespace \/ LexGrammar \/ LexName \/ LexUnknown \/ LexEnd
    \/ MainLexFailed \/ MainParse
    \/ OutputUnknownTarget \/ OutputCxx \/ OutputTs \/ MainDone

SpecMain == InitMain /\ [][NextMain]_vars

\* ---- a backend invoked through its Target on a tree the caller built

\* nodes that are not declarations
NonDeclarations ==
    {[kind |-> "TypeLiteral", data_type |-> [tag |-> "U32"]],
     [kind |-> "EnumMemberDeclaration", name |-> <<"m">>],
     [kind |-> "StructMemberDeclaration", name |-> <<"m">>,
      data_type |-> [kind |-> "TypeLiteral", data_type |-> [tag |-> "U32"]]]}

\* the trees of DataDefinitions with at most one declaration of at most one
\* member
SmallDataDefinitions ==
    {t \in DataDefinitions :
        /\ Len(t.child_nodes) <= 1
        /\ \A k \in 1..Len(t.child_nodes) :
               Len(t.child_nodes[k].child_nodes) <= 1}

\* these with a node that is not a declaration put in front of, or after,
\* their declaration
InvalidDataDefinitions ==
    {DataDefinitionOf(<<n>> \o d.child_nodes) :
         n \in NonDeclarations, d \in SmallDataDefinitions}
    \cup {DataDefinitionOf(Append(d.child_nodes, n)) :
         n \in NonDeclarations, d \in SmallDataDefinitions}

InitBackends ==
    /\ LexerIdle
    /\ ParserIdle
    /\ ast \in DataDefinitions \cup InvalidDataDefinitions
    /\ new_ast = DefaultDataDefinition
    /\ hoisted = <<>>
    /\ generated = <<>>
    /\ cxx_pc = "idle"
    /\ input_file = <<"d",".","f","b">>
    /\ preamble_args = <<>>
    /\ \/ /\ output_files = <<"h">>
          /\ compilation_info =
                 [source_file_name |-> <<"d",".","f","b">>, preamble_comments |-> <<>>]
       \/ /\ output_files = <<"ts">>
          /\ compilation_info \in
                 {[source_file_name |-> <<"d",".","f","b">>, preamble_comments |-> l] :
                      l \in {<<>>, <<<<"x">>>>, <<<<"x">>, <<"y"," ","z">>>>,
                             <<<<"y"," ","z">>, <<"x">>>>}}
    /\ written = <<>>
    /\ main_result = MainRunning
    /\ main_pc = "outputs"

NextBackends == OutputCxx \/ OutputTs \/ MainDone

SpecBackends == InitBackends /\ [][NextBackends]_vars

\* ---- the target registry: main after an empty source file, on output
\* ---- files whose extensions are the aliases, their case variants and
\* ---- other names

TargetNames ==
    {"cxx", "cpp", "c++", "h", "ts-mobx", "typescript-mobx", "ts",
     "CXX", "Cpp", "H", "TS", "Ts", "bogus", ""}

InitTarget ==
    /\ contents = <<>>
    /\ iterator = 0
    /\ source_location = DefaultSourceLocation
    /\ tokens = <<>>
    /\ lex_result = [tag |-> "Ok", value |-> <<>>]
    /\ token_starts = <<>>
    /\ token_ends = <<>>
    /\ token_list = <<>>
    /\ parse_result = parse_tokens(<<>>)
    /\ ast = DefaultDataDefinition
    /\ new_ast = DefaultDataDefinition
    /\ hoisted = <<>>
    /\ generated = <<>>
    /\ cxx_pc = "idle"
    /\ input_file = <<"d",".","f","b">>
    /\ output_files \in ListsUpTo(TargetNames, MaxOutputs)
    /\ preamble_args = <<>>
    /\ compilation_info = MainCompilationInfo(<<"d",".","f","b">>, <<>>)
    /\ written = <<>>
    /\ main_result = MainRunning
    /\ main_pc = "outputs"

NextTarget == OutputUnknownTarget \/ OutputCxx \/ OutputTs \/ MainDone

SpecTarget == InitTarget /\ [][NextTarget]_vars

\* ================================================================== CLAIMS

\* ---- reference definitions for the parser's claims ----

Tok(k) == [token_type |-> [kind |-> k],
           source_location |-> DefaultSourceLocation]
Id(n)  == [token_type |-> Ident(n), source_location |-> DefaultSourceLocation]

KindAt(i) == token_list[i].token_type.kind

\* the option and array keywords of the token list, in source order
RECURSIVE ConstructorKeywords(_)
ConstructorKeywords(toks) ==
    IF toks = <<>> THEN <<>>
    ELSE (IF Head(toks).token_type.kind \in {"Option", "Array"}
          THEN <<Head(toks).token_type.kind>> ELSE <<>>)
         \o ConstructorKeywords(Tail(toks))

\* the Option and Array constructors of a DataType, outermost first
RECURSIVE TypeConstructors(_)
TypeConstructors(data_type) ==
    IF data_type.tag \in {"Option", "Array"}
    THEN <<data_type.tag>> \o TypeConstructors(data_type.inner)
    ELSE <<>>

\* the Option and Array constructors of a tree, in the order of its nodes
RECURSIVE NodeConstructors(_)
RECURSIVE NodesConstructors(_)
NodeConstructors(node) ==
    CASE node.kind \in {"DataDefinition", "StructDeclaration",
                        "EnumDeclaration"} ->
             NodesConstructors(node.child_nodes)
      [] node.kind = "StructMemberDeclaration" ->
             NodeConstructors(node.data_type)
      [] node.kind = "TypeLiteral" -> TypeConstructors(node.data_type)
      [] OTHER -> <<>>
NodesConstructors(nodes) ==
    IF nodes = <<>> THEN <<>>
    ELSE NodeConstructors(Head(nodes)) \o NodesConstructors(Tail(nodes))

\* C1 (as claimed): in an accepted token list every `array ( T )` has become
\* DataType::Array and every `option ( T )` DataType::Option, each wrapping
\* its parsed T: the constructors of the tree are the option/array keywords
\* of the source, in order.
C1_ArrayAndOptionKept ==
    parse_result.tag = "Ok" =>
        NodesConstructors(parse_result.value.child_nodes)
            = ConstructorKeywords(token_list)

\* C2 (as claimed): a member name followed directly by the closing brace is
\* an enum member: `enum a { a }` and `enum a { a , b }` parse to enums with
\* the members [a] and [a, b].
C2_TrailingCommaOptional ==
    /\ token_list = <<Tok("Enum"), Id(<<"a">>), Tok("LCurly"), Id(<<"a">>),
                      Tok("RCurly")>> =>
           parse_result =
               [tag |-> "Ok",
                value |-> [kind |-> "DataDefinition",
                           child_nodes |-> <<
                               [kind |-> "EnumDeclaration", name |-> <<"a">>,
                                child_nodes |-> <<
                                    [kind |-> "EnumMemberDeclaration",
                                     name |-> <<"a">>]>>]>>]]
    /\ token_list = <<Tok("Enum"), Id(<<"a">>), Tok("LCurly"), Id(<<"a">>),
                      Tok("Comma"), Id(<<"b">>), Tok("RCurly")>> =>
           parse_result =
               [tag |-> "Ok",
                value |-> [kind |-> "DataDefinition",
                           child_nodes |-> <<
                               [kind |-> "EnumDeclaration", name |-> <<"a">>,
                                child_nodes |-> <<
                                    [kind |-> "EnumMemberDeclaration",
                                     name |-> <<"a">>],
                                    [kind |-> "EnumMemberDeclaration",
                                     name |-> <<"b">>]>>]>>]]

\* the places of the token list where `option (` or `array (` is followed by
\* a token of one of the kinds
InnerTypeStarts(kinds) ==
    {i \in 1..(Len(token_list) - 2) :
        /\ KindAt(i) \in {"Option", "Array"}
        /\ KindAt(i + 1) = "LParen"
        /\ KindAt(i + 2) \in kinds}

\* C3 (as claimed): an inline StructDecl or EnumDecl is accepted as the inner
\* type of option( ... ) and array( ... ): a token list that holds
\* `option ( struct` is not refused as an unexpected token.
C3_InlineDeclInsideOption ==
    InnerTypeStarts({"Struct", "Enum"}) # {} =>
        parse_result # [tag |-> "Err", value |-> "UnexpectedToken"]

\* C3 (amended): the inner type of option( ... ) and array( ... ) is a
\* literal type only.  A token list that holds `option (` or `array (`
\* followed by struct or enum fails with UnexpectedToken; one that ends just
\* after a primitive keyword, an identifier or a nested option/array in that
\* place has not failed on it (the stream ends there: UnexpectedEndOfTokens).
C3_InnerTypeIsLiteralOnly ==
    /\ InnerTypeStarts({"Struct", "Enum"}) # {} =>
           parse_result = [tag |-> "Err", value |-> "UnexpectedToken"]
    /\ (Len(token_list) - 2)
           \in InnerTypeStarts(PrimitiveKinds \cup
                               {"Identifier", "Option", "Array"}) =>
           parse_result = [tag |-> "Err", value |-> "UnexpectedEndOfTokens"]

\* `m : option ( struct` has been refused, and so has `m : array ( enum`
C3_Witness ==
    /\ Len(token_list) = 8
    /\ KindAt(6) \in {"Option", "Array"}
    /\ KindAt(8) \in {"Struct", "Enum"}
    /\ parse_result = [tag |-> "Err", value |-> "UnexpectedToken"]

\* ---- reference definitions for the C++ backend's claims ----

IsDeclaration(node) ==
    node.kind \in {"StructDeclaration", "EnumDeclaration"}

\* a struct member whose type is an inline declaration
IsInlineMember(node) ==
    /\ node.kind = "StructMemberDeclaration"
    /\ IsDeclaration(node.data_type)

HasNoInlineMember(decl) ==
    \A k \in 1..Len(decl.child_nodes) : ~IsInlineMember(decl.child_nodes[k])

\* a struct whose one member has an inline declaration as its type
IsChainLink(decl) ==
    /\ decl.kind = "StructDeclaration"
    /\ Len(decl.child_nodes) = 1
    /\ IsInlineMember(decl.child_nodes[1])

\* a chain of inline declarations: links down to a declaration without any
RECURSIVE IsChain(_)
IsChain(decl) ==
    \/ HasNoInlineMember(decl)
    \/ IsChainLink(decl) /\ IsChain(decl.child_nodes[1].data_type)

\* the declarations of a chain, outermost first
RECURSIVE ChainDeclarations(_)
ChainDeclarations(decl) ==
    IF IsChainLink(decl)
    THEN <<decl>> \o ChainDeclarations(decl.child_nodes[1].data_type)
    ELSE <<decl>>

\* C4: for a tree whose single top-level struct is a chain of inline
\* declarations nested to depth N, transform_ast returns exactly N+1
\* top-level declarations, innermost first, and every member that had an
\* inline declaration as its type has TypeLiteral(UserDefined(name)) with
\* the name of that declaration.
C4_ChainHoistedInnermostFirst ==
    (/\ cxx_pc # "start"
     /\ Len(ast.child_nodes) = 1
     /\ ast.child_nodes[1].kind = "StructDeclaration"
     /\ IsChain(ast.child_nodes[1])) =>
        LET chain == ChainDeclarations(ast.child_nodes[1])
            N == Len(chain) - 1
        IN  /\ Len(new_ast.child_nodes) = N + 1
            /\ \A k \in 1..(N + 1) :
                   LET out == new_ast.child_nodes[k]
                       src == chain[N + 2 - k]
                   IN  /\ out.kind = src.kind
                       /\ out.name = src.name
                       /\ k > 1 =>
                              out.child_nodes =
                                  <<[kind |-> "StructMemberDeclaration",
                                     name |-> src.child_nodes[1].name,
                                     data_type |->
                                         [kind |-> "TypeLiteral",
                                          data_type |->
                                              [tag |-> "UserDefined",
                                               name |-> chain[N + 3 - k].name]]]>>

\* a chain of depth 2, with an enum innermost, has been transformed
C4_Witness ==
    /\ cxx_pc = "transformed"
    /\ Len(ast.child_nodes) = 1
    /\ IsChainLink(ast.child_nodes[1])
    /\ IsChainLink(ast.child_nodes[1].child_nodes[1].data_type)
    /\ Len(new_ast.child_nodes) = 3
    /\ new_ast.child_nodes[1].kind = "EnumDeclaration"

\* C5 (as claimed): the output of transform_ast is flat: no member of a
\* top-level declaration has a StructDeclaration or EnumDeclaration as its
\* data_type, whatever mix of members the declarations hold.
C5_OutputIsFlat ==
    cxx_pc # "start" =>
        \A j \in 1..Len(new_ast.child_nodes) :
            HasNoInlineMember(new_ast.child_nodes[j])

\* C6 (as claimed): a tree none of whose declarations has an inline
\* declaration as a member's type comes out of transform_ast equal to
\* itself.
C6_IdentityWithoutInline ==
    (/\ cxx_pc # "start"
     /\ \A j \in 1..Len(ast.child_nodes) :
            HasNoInlineMember(ast.child_nodes[j])) =>
        new_ast = ast

\* the number of characters generate emits before the j-th top-level
\* declaration of new_ast
RECURSIVE TextOffset(_)
TextOffset(j) ==
    IF j = 1 THEN 0
    ELSE TextOffset(j - 1) + Len(generate(new_ast.child_nodes[j - 1]))

\* C7: for every UserDefined(name) reference that hoisting put into a
\* declaration D of transform_ast's child list, a declaration named `name`
\* has a smaller index than D, and in the emitted text its
\* `struct name { ` / `enum class name { ` starts before D's text.
C7_DeclaredBeforeUse ==
    cxx_pc # "start" =>
        \A j \in 1..Len(new_ast.child_nodes) :
            \A k \in hoisted[j] :
                LET member == new_ast.child_nodes[j].child_nodes[k]
                IN  /\ member.kind = "StructMemberDeclaration"
                    /\ member.data_type.kind = "TypeLiteral"
                    /\ member.data_type.data_type.tag = "UserDefined"
                    /\ \E i \in 1..(j - 1) :
                           LET decl == new_ast.child_nodes[i]
                               head == DeclarationHead(decl)
                           IN  /\ decl.name = member.data_type.data_type.name
                               /\ cxx_pc = "generated" =>
                                      /\ TextOffset(i) < TextOffset(j)
                                      /\ SubSeq(generated, TextOffset(i) + 1,
                                                TextOffset(i) + Len(head))
                                             = head

\* text has been emitted for a tree with two hoisted declarations
C7_Witness ==
    /\ cxx_pc = "generated"
    /\ Len(new_ast.child_nodes) = 3
    /\ Cardinality({j \in 1..3 : hoisted[j] # {}}) >= 1
    /\ Len(ast.child_nodes) = 1

\* ---- reference definitions for the lexer's claims, counted on the text ----

Max(S) == CHOOSE x \in S : \A y \in S : y <= x

\* index of the last newline among the first k characters, 0 when none
LastNewline(k) == Max({0} \cup {i \in 1..k : contents[i] = "\n"})

\* the location after the first k characters of contents have been consumed
LocationAfter(k) ==
    [line |-> 1 + Cardinality({i \in 1..k : contents[i] = "\n"}),
     position |-> k - LastNewline(k)]

IsUnknownChar(c) == ~is_whitespace(c) /\ ~IsGrammarChar(c) /\ ~is_alphanumeric(c)

UnknownAt == {i \in 1..Len(contents) : IsUnknownChar(contents[i])}

Min(S) == CHOOSE x \in S : \A y \in S : x <= y

\* C8 (as claimed): every token carries the lexer's location after the LAST
\* character of the character or run that produced it.
C8_LocationAfterWholeRun ==
    \A i \in 1..Len(tokens) :
        tokens[i].source_location = LocationAfter(token_ends[i])

\* C8 (amended): every token carries the lexer's location after the FIRST
\* character of the character or run that produced it: for a punctuation
\* token the location after that character, for a keyword or identifier of
\* any length the location after its first character.
C8_LocationAfterFirstChar ==
    /\ \A i \in 1..Len(tokens) :
           tokens[i].source_location = LocationAfter(token_starts[i])
    /\ lex_result.tag = "Ok" => lex_result.value = tokens

\* a keyword or an identifier of more than one character has been lexed
\* after another token
C8_Witness ==
    /\ lex_result.tag = "Ok"
    /\ \E i \in 2..Len(tokens) :
           /\ token_ends[i] > token_starts[i]
           /\ tokens[i].token_type.kind \in {"Identifier", "U8"}

\* C9: each token's line is 1 plus the number of newlines before its first
\* character, its position is 1 plus the number of characters between the
\* last preceding newline (or the start of the input) and its first
\* character; after a newline is consumed the line has been incremented and
\* the position is 0; "u\n8" gives line 1 for u and line 2 for 8.
C9_LineAndPosition ==
    /\ \A i \in 1..Len(tokens) :
           LET first == token_starts[i]
           IN  /\ tokens[i].source_location.line =
                      1 + Cardinality({k \in 1..(first - 1) : contents[k] = "\n"})
               /\ tokens[i].source_location.position =
                      1 + ((first - 1) - LastNewline(first - 1))
    /\ (iterator > 0 /\ contents[iterator] = "\n") =>
           /\ source_location.position = 0
           /\ source_location.line =
                  1 + Cardinality({k \in 1..iterator : contents[k] = "\n"})
    /\ (contents = <<"u", "\n", "8">> /\ lex_result.tag = "Ok") =>
           /\ Len(tokens) = 2
           /\ tokens[1].source_location.line = 1
           /\ tokens[2].source_location = [line |-> 2, position |-> 1]

\* "u\n8" has been lexed: a token on each side of a newline
C9_Witness ==
    /\ contents = <<"u", "\n", "8">>
    /\ lex_result.tag = "Ok"
    /\ Len(tokens) = 2

\* C10: lex_tokens returns Err(UnknownCharacterError(loc)) exactly when the
\* input holds a character that is neither whitespace, grammar nor
\* alphanumeric; loc is that of the first such character, the error carries no
\* tokens, and Ok is returned only with the whole input consumed.
C10_UnknownCharacter ==
    /\ lex_result.tag = "Running" =>
           \A i \in 1..iterator : ~IsUnknownChar(contents[i])
    /\ lex_result.tag = "Err" =>
           /\ UnknownAt # {}
           /\ iterator = Min(UnknownAt)
           /\ lex_result.value = [error |-> "UnknownCharacterError",
                                  location |-> LocationAfter(Min(UnknownAt))]
    /\ lex_result.tag = "Ok" =>
           /\ UnknownAt = {}
           /\ iterator = Len(contents)
           /\ lex_result.value = tokens

\* an error raised after tokens had been lexed, with a second unknown
\* character further on
C10_Witness ==
    /\ lex_result.tag = "Err"
    /\ Len(tokens) > 0
    /\ Cardinality(UnknownAt) > 1

\* ---- C11: tokens against the runs of the text ----

\* index i of the text starts a maximal run of alphanumeric characters
IsRunStart(i) ==
    /\ is_alphanumeric(contents[i])
    /\ i = 1 \/ ~is_alphanumeric(contents[i - 1])

\* the last index of the maximal run that starts at i
RunEnd(i) ==
    Min({j \in i..Len(contents) :
            j = Len(contents) \/ ~is_alphanumeric(contents[j + 1])})

\* C11: no token is emitted for whitespace, and every maximal run of
\* alphanumeric characters the lexer has passed yields exactly one token that
\* spans the whole run: the keyword token when the run is a keyword (u8 over
\* this alphabet), Identifier(run) otherwise; the tokens are these and the
\* grammar characters' only.
C11_OneTokenPerMaximalRun ==
    /\ \A k \in 1..Len(tokens) :
           /\ ~is_whitespace(contents[token_starts[k]])
           /\ \/ /\ IsGrammarChar(contents[token_starts[k]])
                 /\ token_ends[k] = token_starts[k]
              \/ IsRunStart(token_starts[k])
    /\ \A i \in 1..iterator :
           IsRunStart(i) =>
               /\ Cardinality({k \in 1..Len(tokens) :
                                  token_starts[k] \in i..RunEnd(i)}) = 1
               /\ \E k \in 1..Len(tokens) :
                      /\ token_starts[k] = i
                      /\ token_ends[k] = RunEnd(i)
                      /\ tokens[k].token_type =
                             IF SubSeq(contents, i, RunEnd(i)) = <<"u", "8">>
                             THEN [kind |-> "U8"]
                             ELSE [kind |-> "Identifier",
                                   name |-> SubSeq(contents, i, RunEnd(i))]
    /\ Len(tokens) =
           Cardinality({i \in 1..iterator :
                           IsGrammarChar(contents[i]) \/ IsRunStart(i)})

\* a run that begins with a keyword and goes on, between whitespace, lexed to
\* the end
C11_Witness ==
    /\ lex_result.tag = "Ok"
    /\ contents = <<" ", "u", "8", "u">>
    /\ Len(tokens) = 1
    /\ tokens[1].token_type = [kind |-> "Identifier", name |-> <<"u", "8", "u">>]

\* ---- C12: the two parse errors ----

CountKind(toks, k) ==
    Cardinality({i \in 1..Len(toks) : toks[i].token_type.kind = k})

\* every declaration the tokens open is closed: the list is empty, or ends
\* with a `}` that closes the outermost open `{`
IsCompleteInput(toks) ==
    \/ toks = <<>>
    \/ /\ toks[Len(toks)].token_type.kind = "RCurly"
       /\ CountKind(toks, "LCurly") = CountKind(toks, "RCurly")

\* the tokens a parser that recovers would resynchronise on: the ends of a
\* member and of a declaration, and the starts of a declaration
ResyncTokenTypes ==
    {[kind |-> k] : k \in {"Comma", "RCurly", "LCurly", "Struct", "Enum"}}

UnexpectedToken == [tag |-> "Err", value |-> "UnexpectedToken"]
UnexpectedEndOfTokens == [tag |-> "Err", value |-> "UnexpectedEndOfTokens"]

\* C12: parse_tokens returns Ok(DataDefinition) for a complete input or one
\* of the two errors and nothing else.  When no token is of the wrong kind
\* the result is Ok exactly for a complete input and UnexpectedEndOfTokens
\* exactly when the tokens end inside a construct.  UnexpectedToken is
\* returned for a token that is present (a top-level token that is neither
\* struct nor enum, a token other than `{` after a declaration's name), with
\* no recovery: with a `,`, `}`, `{`, struct or enum after it the result
\* stays UnexpectedToken.
C12_OneErrorOrWholeTree ==
    /\ \/ parse_result.tag = "Ok" /\ parse_result.value.kind = "DataDefinition"
       \/ parse_result \in {UnexpectedToken, UnexpectedEndOfTokens}
    /\ parse_result # UnexpectedToken =>
           /\ parse_result.tag = "Ok" <=> IsCompleteInput(token_list)
           /\ parse_result = UnexpectedEndOfTokens <=>
                  ~IsCompleteInput(token_list)
    /\ parse_result = UnexpectedToken =>
           /\ token_list # <<>>
           /\ \A tt \in ResyncTokenTypes :
                  parse_tokens(Append(token_list,
                                      [token_type |-> tt,
                                       source_location |->
                                           DefaultSourceLocation]))
                      = UnexpectedToken
    /\ token_list # <<>> =>
           LET n == Len(token_list)
               kind == token_list[n].token_type.kind
           IN  /\ (/\ IsCompleteInput(SubSeq(token_list, 1, n - 1))
                   /\ kind \notin {"Struct", "Enum"}) =>
                      parse_result = UnexpectedToken
               /\ (/\ n >= 3
                   /\ token_list[n - 2].token_type.kind \in {"Struct", "Enum"}
                   /\ token_list[n - 1].token_type.kind = "Identifier"
                   /\ kind # "LCurly") =>
                      parse_result = UnexpectedToken

\* the tokens end inside the second declaration
C12_Witness ==
    /\ Len(token_list) = 6
    /\ KindAt(1) = "Struct" /\ KindAt(4) = "RCurly"
    /\ KindAt(5) = "Enum" /\ KindAt(6) = "Identifier"
    /\ parse_result = UnexpectedEndOfTokens

\* ---- C13: the target registry ----

StartsWith(text, prefix) ==
    /\ Len(text) >= Len(prefix)
    /\ SubSeq(text, 1, Len(prefix)) = prefix

\* the provenance line main puts first in the preamble
ProvenanceLine == <<"/","/"," ","T","h","i","s"," ","f","i","l","e"," ","h","a","s"," ","b","e","e","n"," ","g","e","n","e","r","a","t","e","d"," ","f","r","o","m"," ","'">>

\* the output files main has passed without a write: none, or the one whose
\* target failed
OutputFailed ==
    /\ main_pc = "done"
    /\ Len(written) < Len(output_files)

\* C13: Target::from_str is a case-exact lookup: exactly cxx, cpp, c++, h
\* resolve to the structural emitter (the file written has no preamble),
\* exactly ts-mobx, typescript-mobx, ts to the reactive-model emitter (the
\* file written starts with the preamble), and every other string s, case
\* variants included, fails with UnknownTarget carrying exactly s.
C13_CaseExactLookup ==
    /\ \A i \in 1..Len(written) :
           /\ written[i].extension = output_files[i]
           /\ \/ /\ written[i].extension \in {"cxx", "cpp", "c++", "h"}
                 /\ ~StartsWith(written[i].contents, ProvenanceLine)
              \/ /\ written[i].extension \in
                        {"ts-mobx", "typescript-mobx", "ts"}
                 /\ StartsWith(written[i].contents, ProvenanceLine)
    /\ OutputFailed =>
           /\ output_files[Len(written) + 1] \notin
                  {"cxx", "cpp", "c++", "h", "ts-mobx", "typescript-mobx",
                   "ts"}
           /\ main_result =
                  [tag |-> "Err",
                   value |-> [error |-> "UnknownTarget",
                              name |-> output_files[Len(written) + 1]]]
    /\ (main_pc = "done" /\ ~OutputFailed) => main_result = [tag |-> "Ok"]

\* an alias resolved, then its upper-case variant rejected
C13_Witness ==
    /\ output_files = <<"c++", "CXX">>
    /\ Len(written) = 1
    /\ main_result = [tag |-> "Err",
                      value |-> [error |-> "UnknownTarget", name |-> "CXX"]]

\* ---- C14: the exports of the reactive-model emitter ----

\* the offsets at which pattern occurs in text
Occurrences(text, pattern) ==
    {i \in 1..(Len(text) - Len(pattern) + 1) :
        SubSeq(text, i, i + Len(pattern) - 1) = pattern}

\* the n-th smallest element of a set of numbers
NthOf(S, n) == CHOOSE x \in S : Cardinality({y \in S : y < x}) = n - 1

\* the text of length Len(expected) at offset i is expected
TextAt(text, i, expected) ==
    SubSeq(text, i, i + Len(expected) - 1) = expected

\* the declarations of a subtree: the node, if it is one, and the inline
\* declarations of its members
RECURSIVE CountDeclarations(_)
RECURSIVE CountDeclarationsIn(_, _)
CountDeclarations(node) ==
    CASE node.kind \in {"StructDeclaration", "EnumDeclaration"} ->
             1 + CountDeclarationsIn(node.child_nodes, 1)
      [] node.kind = "StructMemberDeclaration" ->
             CountDeclarations(node.data_type)
      [] OTHER -> 0
CountDeclarationsIn(nodes, k) ==
    IF k > Len(nodes) THEN 0
    ELSE CountDeclarations(nodes[k]) + CountDeclarationsIn(nodes, k + 1)

AllDeclarations(node) ==
    \A k \in 1..Len(node.child_nodes) : IsDeclaration(node.child_nodes[k])

\* the files the TypeScript generator has written
TsWritten ==
    {i \in 1..Len(written) : from_str(written[i].extension).value
                                 = "TSMobXGenerator"}

ModelCalls(text) ==
    Occurrences(text, <<"t","y","p","e","s",".","m","o","d","e","l","(","{"," ">>)
        \cup Occurrences(text, <<"t","y","p","e","s",".","e","n","u","m","(","["," ">>)

\* C14: for a DataDefinition with k top-level declarations the text of the
\* reactive-model emitter has exactly k `export const <name> = ` and exactly
\* k `export type <name>SnapshotType = SnapshotIn<typeof <name>>;`, paired
\* and in the order of the declarations; the inline declarations of a
\* top-level declaration are rendered between its export and its alias and
\* have no export or alias of their own.
C14_OneExportAndAliasPerTopLevel ==
    \A w \in TsWritten :
        LET text == written[w].contents
            k == Len(ast.child_nodes)
            exports == Occurrences(text, <<"e","x","p","o","r","t"," ","c","o","n","s","t"," ">>)
            aliases == Occurrences(text, <<"e","x","p","o","r","t"," ","t","y","p","e"," ">>)
        IN  /\ AllDeclarations(ast)
            /\ Cardinality(exports) = k
            /\ Cardinality(aliases) = k
            /\ \A n \in 1..k :
                   LET name == ast.child_nodes[n].name
                       export == NthOf(exports, n)
                       alias == NthOf(aliases, n)
                   IN  /\ TextAt(text, export,
                                 <<"e","x","p","o","r","t"," ","c","o","n","s","t"," ">> \o name \o <<" ","="," ","t","y","p","e","s",".">>)
                       /\ TextAt(text, alias - 2,
                                 <<";"," ","e","x","p","o","r","t"," ","t","y","p","e"," ">> \o name
                                     \o <<"S","n","a","p","s","h","o","t","T","y","p","e"," ","="," ","S","n","a","p","s","h","o","t","I","n","<","t","y","p","e","o","f"," ">>
                                     \o name \o <<">",";">>)
                       /\ export < alias
                       /\ n < k => alias < NthOf(exports, n + 1)
                       /\ Cardinality({c \in ModelCalls(text) :
                                          export < c /\ c < alias})
                              = CountDeclarations(ast.child_nodes[n])

\* two top-level declarations, the first with an inline declaration
C14_Witness ==
    /\ TsWritten # {}
    /\ Len(ast.child_nodes) = 2
    /\ CountDeclarations(ast.child_nodes[1]) = 2

\* ---- C15: InvalidAST ----

\* C15 (as claimed): a backend given a DataDefinition one of whose direct
\* children is not a declaration returns InvalidAST and no text, so nothing
\* is written; given a DataDefinition of declarations it never returns
\* InvalidAST.
C15_InvalidASTAndNoText ==
    /\ written # <<>> => AllDeclarations(ast)
    /\ main_pc = "done" =>
           IF AllDeclarations(ast)
           THEN main_result = [tag |-> "Ok"]
           ELSE /\ main_result = [tag |-> "Err",
                                  value |-> [error |-> "InvalidAST"]]
                /\ written = <<>>

\* ---- C16: the preamble ----

\* the offset of the n-th line of the preamble: each line before it is
\* `// `, the comment and a newline
RECURSIVE PreambleLineStart(_, _)
PreambleLineStart(comments, n) ==
    IF n = 1 THEN 1
    ELSE PreambleLineStart(comments, n - 1) + 3 + Len(comments[n - 1]) + 1

\* C16: the text of the reactive-model emitter is the preamble block, a
\* newline and the generated body: one `// <entry>` line per entry of
\* compilation_info.preamble_comments, in the order of the list, each ended
\* by a newline, and the body after the last of them.
C16_PreambleBeforeBody ==
    \A w \in TsWritten :
        LET text == written[w].contents
            comments == compilation_info.preamble_comments
            n == Len(comments)
            body_start == IF n = 0 THEN 2
                          ELSE PreambleLineStart(comments, n + 1)
        IN  /\ \A k \in 1..n :
                   LET start == PreambleLineStart(comments, k)
                   IN  /\ TextAt(text, start, <<"/","/"," ">> \o comments[k])
                       /\ text[start + 3 + Len(comments[k])] = "\n"
            /\ text[body_start - 1] = "\n"
            /\ Cardinality(Occurrences(SubSeq(text, 1, body_start - 1),
                                       <<"/","/"," ">>)) = n
            /\ Cardinality(Occurrences(SubSeq(text, 1, body_start - 1),
                                       <<"\n">>)) = IF n = 0 THEN 1 ELSE n
            /\ SubSeq(text, body_start, Len(text)) = ts_generate_code(ast).text

\* two comments before the body of a declaration
C16_Witness ==
    /\ TsWritten # {}
    /\ compilation_info.preamble_comments = <<<<"y"," ","z">>, <<"x">>>>
    /\ Len(ast.child_nodes) = 1
    /\ StartsWith(written[1].contents, <<"/","/"," ","y"," ","z","\n","/","/"," ","x","\n","e","x","p","o","r","t"," ","c","o","n","s","t"," ">>)

\* ---- C17: the artifacts of a run ----

\* C17 (as claimed): a run of main ends either with an artifact written for
\* every requested output or with an error and nothing written.
C17_AllOrNothing ==
    main_pc = "done" =>
        \/ /\ main_result = [tag |-> "Ok"]
           /\ Len(written) = Len(output_files)
        \/ /\ main_result.tag = "Err"
           /\ written = <<>>

\* ---- C18: the backends and the shared tree ----

\* the text of a backend that runs alone on the parser's output
TextAlone(target) ==
    IF target = "CXXGenerator"
    THEN generate(DataDefinitionOf(
             transform_ast_impl([child_nodes |-> <<>>, hoisted |-> <<>>],
                                parse_result.value).child_nodes))
    ELSE ts_generate_code(parse_result.value).text

BodyOf(w) ==
    IF from_str(w.extension).value = "CXXGenerator"
    THEN w.contents
    ELSE SubSeq(w.contents,
                Len(generate_preamble(compilation_info)) + 2,
                Len(w.contents))

\* C18: after any sequence of backend invocations on the parsed tree, the
\* tree is the parser's output, and every invocation has produced what its
\* backend produces alone on the parser's output, whatever ran before it.
C18_BackendsLeaveTreeAlone ==
    (main_pc \in {"outputs", "done"} /\ parse_result.tag = "Ok") =>
        /\ ast = parse_result.value
        /\ \A i \in 1..Len(written) :
               /\ BodyOf(written[i])
                      = TextAlone(from_str(written[i].extension).value)
               /\ \A j \in 1..Len(written) :
                      from_str(written[i].extension)
                          = from_str(written[j].extension)
                      => written[i].contents = written[j].contents

\* the C++ backend has run after itself, and after the TypeScript backend,
\* on a tree with inline declarations
C18_Witness ==
    /\ main_pc = "done"
    /\ Len(written) = 2
    /\ written[2].extension = "cxx"
    /\ Len(ast.child_nodes) = 2
    /\ Len(new_ast.child_nodes) > 2

\* ---- C19: order, from the tokens to the texts ----

\* the names and the primitive types of a tree, in the order of a walk that
\* visits a node before its children and the children first to last
RECURSIVE TypeWords(_)
TypeWords(data_type) ==
    CASE data_type.tag = "UserDefined" -> <<data_type.name>>
      [] data_type.tag \in {"Option", "Array"} -> TypeWords(data_type.inner)
      [] OTHER -> <<<<data_type.tag>>>>

RECURSIVE AstWords(_)
RECURSIVE AstWordsIn(_, _)
AstWords(node) ==
    CASE node.kind = "DataDefinition" -> AstWordsIn(node.child_nodes, 1)
      [] node.kind \in {"StructDeclaration", "EnumDeclaration"} ->
             <<node.name>> \o AstWordsIn(node.child_nodes, 1)
      [] node.kind = "StructMemberDeclaration" ->
             <<node.name>> \o AstWords(node.data_type)
      [] node.kind = "EnumMemberDeclaration" -> <<node.name>>
      [] node.kind = "TypeLiteral" -> TypeWords(node.data_type)
AstWordsIn(nodes, k) ==
    IF k > Len(nodes) THEN <<>>
    ELSE AstWords(nodes[k]) \o AstWordsIn(nodes, k + 1)

\* the names and the primitive types of a token list, in its order
RECURSIVE TokenWords(_, _)
TokenWords(toks, k) ==
    IF k > Len(toks) THEN <<>>
    ELSE (CASE toks[k].token_type.kind = "Identifier" ->
                   <<toks[k].token_type.name>>
            [] toks[k].token_type.kind \in PrimitiveKinds ->
                   <<<<toks[k].token_type.kind>>>>
            [] OTHER -> <<>>)
         \o TokenWords(toks, k + 1)

\* the members a struct keeps, first to last, an inline declaration
\* replaced by its name
RECURSIVE KeptMembers(_, _)
KeptMembers(nodes, k) ==
    IF k > Len(nodes) THEN <<>>
    ELSE (IF nodes[k].kind # "StructMemberDeclaration" THEN <<>>
          ELSE IF IsDeclaration(nodes[k].data_type)
               THEN <<[kind |-> "StructMemberDeclaration",
                       name |-> nodes[k].name,
                       data_type |->
                           [kind |-> "TypeLiteral",
                            data_type |->
                                [tag |-> "UserDefined",
                                 name |-> nodes[k].data_type.name]]]>>
               ELSE <<nodes[k]>>)
         \o KeptMembers(nodes, k + 1)

\* a declaration as the normalized tree is to hold it
NormalizedDeclaration(decl) ==
    IF decl.kind = "StructDeclaration"
    THEN [kind |-> "StructDeclaration", name |-> decl.name,
          child_nodes |-> KeptMembers(decl.child_nodes, 1)]
    ELSE decl

\* the inline declarations of a struct's members, and of theirs
RECURSIVE InlineOfStructs(_)
InlineOfStructs(decl) ==
    IF decl.kind # "StructDeclaration" THEN {}
    ELSE UNION {{decl.child_nodes[k].data_type}
                    \cup InlineOfStructs(decl.child_nodes[k].data_type) :
                k \in {q \in 1..Len(decl.child_nodes) :
                          IsInlineMember(decl.child_nodes[q])}}

\* sub[i..] can be found in seq[j..], in order
RECURSIVE IsSubsequenceFrom(_, _, _, _)
IsSubsequenceFrom(sub, i, seq, j) ==
    IF i > Len(sub) THEN TRUE
    ELSE IF j > Len(seq) THEN FALSE
    ELSE IF sub[i] = seq[j] THEN IsSubsequenceFrom(sub, i + 1, seq, j + 1)
    ELSE IsSubsequenceFrom(sub, i, seq, j + 1)

\* the pieces from the q-th on lie in the text one after the other from
\* start, sep characters between them
RECURSIVE PiecesFrom(_, _, _, _, _)
PiecesFrom(text, start, pieces, q, sep) ==
    \/ q > Len(pieces)
    \/ /\ TextAt(text, start, pieces[q])
       /\ PiecesFrom(text, start + Len(pieces[q]) + sep, pieces, q + 1, sep)

RECURSIVE LengthBefore(_, _)
LengthBefore(pieces, q) ==
    IF q = 1 THEN 0 ELSE LengthBefore(pieces, q - 1) + Len(pieces[q - 1])

CxxPieces(nodes) == [q \in 1..Len(nodes) |-> generate(nodes[q])]
TsPieces(nodes) == [q \in 1..Len(nodes) |-> ts_generate_code(nodes[q]).text]
TsExports(nodes) ==
    [q \in 1..Len(nodes) |-> generate_top_level_type_definition(nodes[q]).text]

\* the text of the C++ backend renders the declarations of new_ast, and the
\* members of each, in child_nodes order
CxxInOrder(text) ==
    LET decls == CxxPieces(new_ast.child_nodes)
    IN  /\ PiecesFrom(text, 1, decls, 1, 0)
        /\ \A j \in 1..Len(decls) :
               LET decl == new_ast.child_nodes[j]
               IN  PiecesFrom(text,
                              LengthBefore(decls, j) + 1
                                  + Len(DeclarationHead(decl)),
                              CxxPieces(decl.child_nodes), 1,
                              IF decl.kind = "EnumDeclaration" THEN 1 ELSE 0)

\* the text of the TypeScript backend renders the declarations of ast, and
\* the members of each, in child_nodes order
TsInOrder(text) ==
    LET decls == TsExports(ast.child_nodes)
        body == Len(generate_preamble(compilation_info)) + 2
    IN  /\ PiecesFrom(text, body, decls, 1, 0)
        /\ \A j \in 1..Len(decls) :
               LET decl == ast.child_nodes[j]
               IN  PiecesFrom(text,
                              body + LengthBefore(decls, j)
                                  + Len(<<"e","x","p","o","r","t"," ","c","o","n","s","t"," ">>) + Len(decl.name)
                                  + Len(<<" ","="," ">>)
                                  + (IF decl.kind = "StructDeclaration"
                                     THEN Len(<<"t","y","p","e","s",".","m","o","d","e","l","(","{"," ">>)
                                     ELSE Len(<<"t","y","p","e","s",".","e","n","u","m","(","["," ">>)),
                              TsPieces(decl.child_nodes), 1, 2)

\* C19: order is kept from end to end: the names and types of the parsed
\* tree are those of the tokens in the tokens' order; the normalized tree
\* holds the source's top-level declarations in their order, each struct
\* with the members it keeps in their order, and so are the structs hoisted
\* out of structs; both emitters render the declarations and their members
\* in child_nodes order.
C19_OrderPreserved ==
    /\ (main_pc \in {"outputs", "done"} /\ parse_result.tag = "Ok") =>
           AstWords(parse_result.value) = TokenWords(token_list, 1)
    /\ cxx_pc = "generated" =>
           /\ IsSubsequenceFrom(
                  [n \in 1..Len(ast.child_nodes) |->
                      NormalizedDeclaration(ast.child_nodes[n])],
                  1, new_ast.child_nodes, 1)
           /\ \A n \in 1..Len(ast.child_nodes) :
                  \A d \in InlineOfStructs(ast.child_nodes[n]) :
                      \E j \in 1..Len(new_ast.child_nodes) :
                          new_ast.child_nodes[j] = NormalizedDeclaration(d)
    /\ \A w \in 1..Len(written) :
           IF w \in TsWritten THEN TsInOrder(written[w].contents)
                              ELSE CxxInOrder(written[w].contents)

\* both backends have written the text of two declarations, the first with
\* two members and two levels of inline declarations
C19_Witness ==
    /\ main_pc = "done"
    /\ Len(written) = 2
    /\ written[1].extension = "h"
    /\ written[2].extension = "ts"
    /\ Len(ast.child_nodes) = 2
    /\ Len(ast.child_nodes[1].child_nodes) = 2
    /\ Len(new_ast.child_nodes) = 4

\* ---- C20: normalization twice ----

\* C20: transform_ast applied to the tree transform_ast returned gives that
\* tree again and hoists nothing.
C20_NormalizationIdempotent ==
    cxx_pc = "renormalized" =>
        /\ new_ast = ast
        /\ \A j \in 1..Len(hoisted) : hoisted[j] = {}

\* a tree with two hoisted declarations has been normalized again
C20_Witness ==
    /\ cxx_pc = "renormalized"
    /\ Len(ast.child_nodes) = 3
    /\ \E j \in 2..3 :
           \E k \in 1..Len(ast.child_nodes[j].child_nodes) :
               /\ ast.child_nodes[j].child_nodes[k].kind
                      = "StructMemberDeclaration"
               /\ ast.child_nodes[j].child_nodes[k].data_type.data_type
                      = [tag |-> "UserDefined",
                         name |-> ast.child_nodes[j - 1].name]

\* ---- C21: the parser's loops consume tokens ----

\* one iteration of the member loop of parse_named_statement_list_children,
\* entered with i tokens consumed: how it ends ("break", "error" with the
\* error, or "next" for another iteration) and, for "next", the member it
\* pushed, the tokens consumed once the member is built and once the
\* iteration is over
MemberLoopIteration(toks, i) ==
    LET name_token == TokenAt(toks, i)
        following_token == TokenAt(toks, i + 1)
    IN  IF ~name_token.some
        THEN [end |-> "error", err |-> "UnexpectedEndOfTokens"]
        ELSE IF name_token.token.token_type.kind # "Identifier"
        THEN [end |-> "break"]
        ELSE IF ~following_token.some
        THEN [end |-> "error", err |-> "UnexpectedEndOfTokens"]
        ELSE LET member == MemberNode(toks, i + 2,
                                      name_token.token.token_type.name,
                                      following_token.token)
             IN  IF member.err # "None"
                 THEN [end |-> "error", err |-> member.err]
                 ELSE IF ~TokenAt(toks, member.pos).some
                 THEN [end |-> "error", err |-> "UnexpectedEndOfTokens"]
                 ELSE [end |-> "next",
                       member |-> member.val,
                       member_end |-> member.pos,
                       pos |-> IterateOverComma(TokenAt(toks, member.pos),
                                                member.pos)]

\* the iterations the member loop makes when entered with i tokens consumed,
\* the one that ends it included, each with the tokens consumed at its start
RECURSIVE MemberLoopIterations(_, _)
MemberLoopIterations(toks, i) ==
    LET iteration == MemberLoopIteration(toks, i)
        started == [head |-> i, iteration |-> iteration]
    IN  IF iteration.end = "next"
        THEN <<started>> \o MemberLoopIterations(toks, iteration.pos)
        ELSE <<started>>

\* what the member loop returns after these iterations: the members pushed
\* when the last one breaks, its error otherwise
MemberLoopResult(iterations) ==
    LET last == iterations[Len(iterations)]
    IN  IF last.iteration.end = "break"
        THEN POk([k \in 1..(Len(iterations) - 1) |->
                      iterations[k].iteration.member],
                 last.head)
        ELSE PErr(last.iteration.err)

\* the member loop is entered after the `{` of a declaration
MemberLoopEntries == {e \in 1..Len(token_list) : KindAt(e) = "LCurly"}

\* the top-level loop calls parse where a declaration can start
TopLevelHeads ==
    {i \in 0..(Len(token_list) - 1) : KindAt(i + 1) \in {"Struct", "Enum"}}

\* C21: parse_tokens returns on every token list.  An iteration of the
\* top-level loop that goes on has consumed at least one token, and never
\* more tokens than there are.  In the member loop, entered after any `{`,
\* every iteration that goes on has consumed at least one token, the last
\* iteration ends the loop by break (nothing consumed) or by an error, the
\* loop makes at most one iteration per remaining token and one more, and
\* it returns what these iterations give.  An iteration that pushes a
\* struct-shaped member consumes, after the member's type, one comma if one
\* is next and nothing otherwise; an iteration that pushes an enum-shaped
\* member consumes the name, its comma, and one further comma if one is
\* next.
C21_LoopsConsumeTokens ==
    /\ parse_result.tag \in {"Ok", "Err"}
    /\ parse_result.tag = "Ok" =>
           Len(parse_result.value.child_nodes) <= Len(token_list)
    /\ parse(token_list, Len(token_list)) = PErr("UnexpectedEndOfTokens")
    /\ \A i \in TopLevelHeads :
           LET top == parse(token_list, i)
           IN  top.err = "None" =>
                   (i < top.pos /\ top.pos <= Len(token_list))
    /\ \A e \in MemberLoopEntries :
           LET n == Len(token_list)
               iterations == MemberLoopIterations(token_list, e)
           IN  /\ Len(iterations) <= n - e + 1
               /\ parse_named_statement_list_children(token_list, e, <<>>)
                      = MemberLoopResult(iterations)
               /\ \A k \in 1..Len(iterations) :
                      LET i == iterations[k].head
                          iteration == iterations[k].iteration
                      IN  /\ k < Len(iterations) <=> iteration.end = "next"
                          /\ iteration.end = "next" =>
                                 /\ iterations[k + 1].head = iteration.pos
                                 /\ i < iteration.pos /\ iteration.pos <= n
                                 /\ iteration.member.kind
                                        \in {"StructMemberDeclaration",
                                             "EnumMemberDeclaration"}
                                 /\ iteration.member.kind
                                        = "StructMemberDeclaration" =>
                                        /\ KindAt(i + 2) = "Colon"
                                        /\ iteration.member_end >= i + 3
                                        /\ iteration.pos
                                               = IF KindAt(iteration.member_end
                                                               + 1) = "Comma"
                                                 THEN iteration.member_end + 1
                                                 ELSE iteration.member_end
                                 /\ iteration.member.kind
                                        = "EnumMemberDeclaration" =>
                                        /\ KindAt(i + 2) = "Comma"
                                        /\ iteration.member_end = i + 2
                                        /\ iteration.pos
                                               = IF KindAt(i + 3) = "Comma"
                                                 THEN i + 3 ELSE i + 2

\* `struct a { b : u32 , a , , }` is accepted: one comma is consumed after
\* the struct-shaped member b, two with the enum-shaped member a
C21_Witness ==
    /\ parse_result.tag = "Ok"
    /\ Len(token_list) = 11
    /\ KindAt(3) = "LCurly"
    /\ Len(MemberLoopIterations(token_list, 3)) = 3
    /\ [k \in 1..3 |-> MemberLoopIterations(token_list, 3)[k].head]
           = <<3, 7, 10>>
    /\ LET struct_shaped == MemberLoopIteration(token_list, 3)
           enum_shaped == MemberLoopIteration(token_list, 7)
       IN  /\ struct_shaped.member.kind = "StructMemberDeclaration"
           /\ struct_shaped.member_end = 6
           /\ enum_shaped.member.kind = "EnumMemberDeclaration"
           /\ enum_shaped.member_end = 9
    /\ KindAt(7) = "Comma"
    /\ KindAt(9) = "Comma" /\ KindAt(10) = "Comma" /\ KindAt(11) = "RCurly"

====
